---- MODULE Spec2Model ----
(***************************************************************************)
(* Campus-safety backend: the report lifecycle (create, time-limited edit, *)
(* retract, vote, comment, spam flag, moderator update, detail fetch), the *)
(* audit trail each handler writes and the events it publishes.            *)
(*                                                                         *)
(* Every HTTP handler is one action: the route's middleware, the load of   *)
(* the report, the in-memory changes, every save, the audit write, the     *)
(* notification, the socket emit and the response.  A handler that runs    *)
(* alone is what the specifications below model; requests are taken one    *)
(* after another.                                                          *)
(*                                                                         *)
(* Arrays of user ids (votes.confirms, votes.disputes, spamReports) are    *)
(* bags: the code only pushes, filters by id, tests membership and reads   *)
(* the length, none of which depends on the order, and a bag still holds   *)
(* an id twice when the code pushes it twice.                              *)
(*                                                                         *)
(* The AuditLog, Notification and socket stores are written and never read *)
(* by a handler: audited, notified and emitted hold what the latest        *)
(* request appended to each.  last is the request just answered, with the *)
(* reports a listing returned in data.  inflight holds the requests that   *)
(* are suspended between their read of a report and their write.          *)
(***************************************************************************)
EXTENDS Integers, Sequences, FiniteSets, Bags, TLC

VARIABLES users, reports, comments, now, last, audited, notified, emitted,
          inflight, auditLog, sockets

vars == <<users, reports, comments, now, last, audited, notified, emitted, inflight,
          auditLog, sockets>>

(***************************************************************************)
(* Bounds of the model.                                                    *)
(***************************************************************************)
MaxComments == 1
MaxViews == 1
MaxEdits == 1
MaxAudit == 3

(***************************************************************************)
(* Program constants.                                                      *)
(***************************************************************************)
EditTimeLimit == 30 * 60 * 1000
SpamThreshold == 5

NoId == "none"
NoDate == 0 - 1
NoText == ""

UserIds == {"s1", "s2", "m1", "a2", "x2", "g1"}
ReportIds == {"r1"}
Statuses == {"reported", "verified", "investigating", "resolved", "invalid", "spam"}

\* The instants the clock takes: creation, 29m59s, 30m00s and 30m01s later (ms).
Instants == {0, 1799000, 1800000, 1801000}

UserDoc(role, campus) ==
    [role |-> role, campusId |-> campus, isActive |-> TRUE, isBanned |-> FALSE]

InitUsers ==
    [u \in UserIds |->
        CASE u = "s1" -> UserDoc("student", "A")
          [] u = "s2" -> UserDoc("student", "A")
          [] u = "m1" -> UserDoc("moderator", "A")
          [] u = "a2" -> UserDoc("admin", "B")
          [] u = "x2" -> UserDoc("super-admin", "B")
          [] u = "g1" -> UserDoc("security", "A")]

(***************************************************************************)
(* User.js                                                                 *)
(***************************************************************************)
canModerate(u) == users[u].role \in {"moderator", "admin", "super-admin"}

canAdminOrModerator(u) == users[u].role \in {"moderator", "admin", "super-admin"}

canAdmin(u) == users[u].role \in {"admin", "super-admin"}

\* The socket middleware's test, which leaves isBanned out.
authenticateActiveOnly(u) ==
    IF u \notin DOMAIN users THEN 401
    ELSE IF ~users[u].isActive THEN 403
    ELSE 0

\* middlewares/auth.js authenticate: 0 when the request goes on to the handler.
authenticate(u) ==
    IF u \notin DOMAIN users THEN 401
    ELSE IF ~users[u].isActive THEN 403
    ELSE IF users[u].isBanned THEN 403
    ELSE 0

\* middlewares/auth.js requireRole
requireRole(u, roles) == IF users[u].role \in roles THEN 0 ELSE 403

(***************************************************************************)
(* Report.js                                                               *)
(***************************************************************************)
confirmCount(rep) == BagCardinality(rep.confirms)

disputeCount(rep) == BagCardinality(rep.disputes)

netVotes(rep) == BagCardinality(rep.confirms) - BagCardinality(rep.disputes)

\* arr.filter(id => !id.equals(userId))
Without(bag, u) == [x \in (DOMAIN bag) \ {u} |-> bag[x]]

\* arr.push(userId)
Push(bag, u) == bag (+) SetToBag({u})

\* canEdit without the test of the status.
canEditAnyStatus(rep, u, t) ==
    IF rep.reporterId # u THEN FALSE
    ELSE t - rep.createdAt < EditTimeLimit

canEdit(rep, u, t) ==
    IF rep.status # "reported" THEN FALSE
    ELSE IF rep.reporterId # u THEN FALSE
    ELSE t - rep.createdAt < EditTimeLimit

\* addVote without the removal from the opposite array.
addVoteKeepOpposite(rep, u, voteType) ==
    IF voteType = "confirm"
    THEN [rep EXCEPT !.confirms = IF BagIn(u, rep.confirms) THEN @ ELSE Push(@, u)]
    ELSE [rep EXCEPT !.disputes = IF BagIn(u, rep.disputes) THEN @ ELSE Push(@, u)]

\* addVote pushing without the test for presence.
addVotePushAlways(rep, u, voteType) ==
    IF voteType = "confirm"
    THEN [rep EXCEPT !.disputes = Without(rep.disputes, u), !.confirms = Push(@, u)]
    ELSE [rep EXCEPT !.confirms = Without(rep.confirms, u), !.disputes = Push(@, u)]

addVote(rep, u, voteType) ==
    IF voteType = "confirm"
    THEN [rep EXCEPT !.disputes = Without(rep.disputes, u),
                     !.confirms = IF BagIn(u, rep.confirms) THEN @ ELSE Push(@, u)]
    ELSE [rep EXCEPT !.confirms = Without(rep.confirms, u),
                     !.disputes = IF BagIn(u, rep.disputes) THEN @ ELSE Push(@, u)]

incrementViews(rep) == [rep EXCEPT !.viewsCount = @ + 1]

NewReport(u, body, t) ==
    [reporterId |-> u, campusId |-> users[u].campusId,
     category |-> body.category, severity |-> body.severity,
     title |-> body.title, description |-> body.description,
     location |-> body.location,
     status |-> "reported", resolvedBy |-> NoId, resolvedAt |-> NoDate,
     moderatorNotes |-> NoText, assignedTo |-> NoId,
     confirms |-> EmptyBag, disputes |-> EmptyBag,
     commentsCount |-> 0, viewsCount |-> 0,
     spamReports |-> EmptyBag, isSpam |-> FALSE,
     isEdited |-> FALSE, editedAt |-> NoDate, editHistory |-> <<>>,
     createdAt |-> t]

(***************************************************************************)
(* AuditLog.js logAction: the callers pass entityId, never reportId.       *)
(***************************************************************************)
logAction(actor, action, entityId, payload, changes) ==
    [reportId |-> NoId, actorId |-> actor, action |-> action,
     entityType |-> "report", entityId |-> entityId,
     payload |-> payload, changes |-> changes]

\* Notification.js createNotification
createNotification(userId, reportId, type, priority) ==
    [userId |-> userId, reportId |-> reportId, type |-> type, priority |-> priority]

(***************************************************************************)
(* socketService.js                                                        *)
(***************************************************************************)
Emit(room, event, reportId, data) ==
    [room |-> room, event |-> event, reportId |-> reportId, data |-> data,
     to |-> {k \in DOMAIN sockets : room \in sockets[k].rooms}]

emitNewReport(campusId, r, rep) ==
    <<Emit(<<"campus", campusId>>, "new_report", r, rep)>>

emitReportUpdate(campusId, r, updates) ==
    <<Emit(<<"campus", campusId>>, "report_update", r, updates),
      Emit(<<"report", r>>, "report_update", r, updates)>>

emitNewComment(r, comment) ==
    <<Emit(<<"report", r>>, "new_comment", r, comment)>>

\* The users a room can deliver to: a connecting socket joins the room of its
\* user's campus, and any socket joins a report room on join_report.
RoomMembers(room) ==
    IF room[1] = "campus"
    THEN {u \in DOMAIN users : users[u].isActive /\ users[u].campusId = room[2]}
    ELSE {u \in DOMAIN users : users[u].isActive}

(***************************************************************************)
(* The request just answered and what it wrote.                            *)
(***************************************************************************)
\* The AuditLog collection after a request has written the entries aud.
\* Untracked marks the specifications that look at audited only.
Untracked == [kept |-> FALSE, entries |-> <<>>]

\* The collection with its existing entries dropped.
createOnly(log, aud) == [log EXCEPT !.entries = aud]

\* AuditLog.create: the only write any handler makes to the collection.
create(log, aud) == [log EXCEPT !.entries = @ \o aud]

Written(op, u, r, code, auditFailed, aud, notes, emits) ==
    /\ auditLog.kept => Len(auditLog.entries) + Len(aud) <= MaxAudit
    /\ auditLog' = IF auditLog.kept THEN create(auditLog, aud) ELSE auditLog
    /\ UNCHANGED sockets
    /\ last' = [op |-> op, actor |-> u, report |-> r, code |-> code,
                auditFailed |-> auditFailed, data |-> {}]
    /\ audited' = aud
    /\ notified' = notes
    /\ emitted' = emits

\* The answer of a request handled without any other request in between.
Respond(op, u, r, code, auditFailed, aud, notes, emits) ==
    /\ Written(op, u, r, code, auditFailed, aud, notes, emits)
    /\ UNCHANGED inflight

\* A response sent before the handler touched any store.
Reject(op, u, r, code) ==
    /\ Respond(op, u, r, code, FALSE, <<>>, <<>>, <<>>)
    /\ UNCHANGED <<users, reports, comments, now>>

Init ==
    /\ users = InitUsers
    /\ reports = <<>>
    /\ comments = <<>>
    /\ now = 0
    /\ last = [op |-> "none", actor |-> NoId, report |-> NoId, code |-> 0,
               auditFailed |-> FALSE, data |-> {}]
    /\ audited = <<>>
    /\ notified = <<>>
    /\ emitted = <<>>
    /\ inflight = <<>>
    /\ auditLog = Untracked
    /\ sockets = <<>>

Tick == /\ \E t \in Instants : t > now /\ now' = t
        /\ UNCHANGED <<users, reports, comments, last, audited, notified, emitted,
                       inflight, auditLog, sockets>>

ReportBody ==
    [category |-> "safety", severity |-> 3, title |-> "t1", description |-> "d1",
     location |-> <<1, 1>>]

(***************************************************************************)
(* reports.controller.js                                                   *)
(***************************************************************************)
\* POST /reports.  auditOk: whether AuditLog.create succeeds.
createReport(u, r, body, auditOk) ==
    IF authenticate(u) # 0 THEN Reject("create", u, r, authenticate(u))
    ELSE
        /\ r \notin DOMAIN reports
        /\ reports' = reports @@ (r :> NewReport(u, body, now))
        /\ UNCHANGED <<users, comments, now>>
        /\ IF ~auditOk
           THEN Respond("create", u, r, 500, TRUE, <<>>, <<>>, <<>>)
           ELSE Respond("create", u, r, 201, FALSE,
                        <<logAction(u, "create_report", r,
                                    <<body.category, body.severity>>, <<>>)>>,
                        <<>>,
                        emitNewReport(users[u].campusId, r, NewReport(u, body, now)))

\* POST /reports/:id/vote
voteReport(u, r, vote, auditOk) ==
    IF authenticate(u) # 0 THEN Reject("vote", u, r, authenticate(u))
    ELSE IF vote \notin {"confirm", "dispute"} THEN Reject("vote", u, r, 400)
    ELSE IF r \notin DOMAIN reports THEN Reject("vote", u, r, 404)
    ELSE
        /\ reports' = [reports EXCEPT ![r] = addVote(@, u, vote)]
        /\ UNCHANGED <<users, comments, now>>
        /\ IF ~auditOk
           THEN Respond("vote", u, r, 500, TRUE, <<>>, <<>>, <<>>)
           ELSE Respond("vote", u, r, 200, FALSE,
                        <<logAction(u, "vote_report", r, <<vote>>, <<>>)>>,
                        <<>>, <<>>)

\* What a request body leaves out reads as a falsy value: "" for a text,
\* 0 for a number.
OrElse(val, old) == IF val = "" THEN old ELSE val

OrElseNum(val, old) == IF val = 0 THEN old ELSE val

Content(rep) ==
    [title |-> rep.title, description |-> rep.description,
     category |-> rep.category, severity |-> rep.severity]

\* PATCH /reports/:id.  editHistory is declared select: false and the handler
\* loads the report without selecting it.  historyLoaded: whether the loaded
\* document holds the array (the push goes through) or leaves the path
\* undefined (the push throws a TypeError, which the catch answers with 500
\* before anything is saved).
updateReport(u, r, body, historyLoaded, auditOk) ==
    IF authenticate(u) # 0 THEN Reject("edit", u, r, authenticate(u))
    ELSE IF r \notin DOMAIN reports THEN Reject("edit", u, r, 404)
    ELSE IF ~canEdit(reports[r], u, now) THEN Reject("edit", u, r, 403)
    ELSE IF ~historyLoaded THEN Reject("edit", u, r, 500)
    ELSE
        LET old == reports[r]
            upd == [old EXCEPT !.title = OrElse(body.title, @),
                               !.description = OrElse(body.description, @),
                               !.category = OrElse(body.category, @),
                               !.severity = OrElseNum(body.severity, @),
                               !.isEdited = TRUE,
                               !.editedAt = now]
            \* pushed after the fields were assigned: title || report.title
            snapshot == [editedAt |-> now,
                         changes |-> [title |-> OrElse(body.title, upd.title),
                                      description |-> OrElse(body.description, upd.description),
                                      category |-> OrElse(body.category, upd.category),
                                      severity |-> OrElseNum(body.severity, upd.severity)]]
            new == [upd EXCEPT !.editHistory = Append(@, snapshot)]
            emits == emitReportUpdate(users[u].campusId, r,
                         [title |-> new.title, description |-> new.description,
                          category |-> new.category, severity |-> new.severity,
                          isEdited |-> TRUE, editedAt |-> new.editedAt])
        IN  /\ Len(old.editHistory) < MaxEdits
            /\ reports' = [reports EXCEPT ![r] = new]
            /\ UNCHANGED <<users, comments, now>>
            /\ IF ~auditOk
               THEN Respond("edit", u, r, 500, TRUE, <<>>, <<>>, emits)
               ELSE Respond("edit", u, r, 200, FALSE,
                            <<logAction(u, "edit_report", r, <<>>,
                                        <<Content(old), Content(new)>>)>>,
                            <<>>, emits)

\* DELETE /reports/:id
deleteReport(u, r, auditOk) ==
    IF authenticate(u) # 0 THEN Reject("delete", u, r, authenticate(u))
    ELSE IF r \notin DOMAIN reports THEN Reject("delete", u, r, 404)
    ELSE IF reports[r].reporterId # u /\ ~canAdmin(u) THEN Reject("delete", u, r, 403)
    ELSE
        /\ reports' = [reports EXCEPT ![r].status = "invalid"]
        /\ UNCHANGED <<users, comments, now>>
        /\ IF ~auditOk
           THEN Respond("delete", u, r, 500, TRUE, <<>>, <<>>, <<>>)
           ELSE Respond("delete", u, r, 200, FALSE,
                        <<logAction(u, "delete_report", r, <<>>, <<>>)>>,
                        <<>>, <<>>)

\* POST /reports/:id/comment
addComment(u, r, content) ==
    IF authenticate(u) # 0 THEN Reject("comment", u, r, authenticate(u))
    ELSE IF content = "" THEN Reject("comment", u, r, 400)
    ELSE IF r \notin DOMAIN reports THEN Reject("comment", u, r, 404)
    ELSE
        LET comment == [reportId |-> r, userId |-> u, content |-> content]
        IN  /\ reports[r].commentsCount < MaxComments
            /\ comments' = Append(comments, comment)
            /\ reports' = [reports EXCEPT ![r].commentsCount = @ + 1]
            /\ UNCHANGED <<users, now>>
            /\ Respond("comment", u, r, 201, FALSE, <<>>,
                       IF reports[r].reporterId # u
                       THEN <<createNotification(reports[r].reporterId, r,
                                                 "comment_reply", "low")>>
                       ELSE <<>>,
                       emitNewComment(r, comment))

\* The threshold test with > for >=.
thresholdReachedAbove(rep) ==
    BagCardinality(rep.spamReports) > SpamThreshold /\ ~rep.isSpam

\* report.spamReports.length >= 5 && !report.isSpam
thresholdReached(rep) ==
    BagCardinality(rep.spamReports) >= SpamThreshold /\ ~rep.isSpam

\* The push without the includes test.
addSpamReportAlways(rep, u) == [rep EXCEPT !.spamReports = Push(@, u)]

\* if (!report.spamReports.includes(req.userId)) report.spamReports.push(req.userId)
addSpamReport(rep, u) ==
    IF BagIn(u, rep.spamReports) THEN rep
    ELSE [rep EXCEPT !.spamReports = Push(@, u)]

\* POST /reports/:id/report-spam
reportSpam(u, r, auditOk) ==
    IF authenticate(u) # 0 THEN Reject("spam", u, r, authenticate(u))
    ELSE IF r \notin DOMAIN reports THEN Reject("spam", u, r, 404)
    ELSE
        LET old == reports[r]
            \* saved before the audit write
            flagged == addSpamReport(old, u)
            \* saved after the audit write
            marked == IF thresholdReached(flagged)
                      THEN [flagged EXCEPT !.isSpam = TRUE, !.status = "spam"]
                      ELSE flagged
        IN  /\ UNCHANGED <<users, comments, now>>
            /\ IF ~auditOk
               THEN /\ reports' = [reports EXCEPT ![r] = flagged]
                    /\ Respond("spam", u, r, 500, TRUE, <<>>, <<>>, <<>>)
               ELSE /\ reports' = [reports EXCEPT ![r] = marked]
                    /\ Respond("spam", u, r, 200, FALSE,
                               <<logAction(u, "report_spam", r, <<>>, <<>>)>>,
                               <<>>, <<>>)

\* GET /reports/:id
getReportById(u, r) ==
    IF authenticate(u) # 0 THEN Reject("view", u, r, authenticate(u))
    ELSE IF r \notin DOMAIN reports THEN Reject("view", u, r, 404)
    ELSE
        /\ reports[r].viewsCount < MaxViews
        /\ reports' = [reports EXCEPT ![r] = incrementViews(@)]
        /\ UNCHANGED <<users, comments, now>>
        /\ Respond("view", u, r, 200, FALSE, <<>>, <<>>, <<>>)

(***************************************************************************)
(* moderation.controller.js, behind moderation.routes.js                   *)
(***************************************************************************)
AuditActionVerifyOrResolve(status) ==
    IF status = "verified" THEN "verify_report" ELSE "resolve_report"

AuditAction(status) ==
    IF status = "verified" THEN "verify_report"
    ELSE IF status = "invalid" THEN "invalidate_report"
    ELSE "resolve_report"

\* status, then moderatorNotes, then assignedTo, as the handler assigns them.
ApplyModeration(rep, u, status, moderatorNotes, assignedTo, t) ==
    LET r1 == IF status = "" THEN rep
              ELSE IF status = "resolved"
                   THEN [rep EXCEPT !.status = status, !.resolvedBy = u, !.resolvedAt = t]
                   ELSE [rep EXCEPT !.status = status]
        r2 == IF moderatorNotes = "" THEN r1
              ELSE [r1 EXCEPT !.moderatorNotes = moderatorNotes]
        r3 == IF assignedTo = "" THEN r2
              ELSE IF assignedTo \in DOMAIN users /\ users[assignedTo].role = "security"
                   THEN [r2 EXCEPT !.assignedTo = assignedTo]
                   ELSE r2
    IN  r3

\* PATCH /moderation/reports/:id
\* The test without the comparison of reporter and actor.
statusChangedOnly(old, new, u) == old.status # new.status

\* oldStatus !== report.status && !report.reporterId.equals(req.userId)
statusChangedByOther(old, new, u) == old.status # new.status /\ old.reporterId # u

updateReportStatus(u, r, status, moderatorNotes, assignedTo, auditOk) ==
    IF authenticate(u) # 0 THEN Reject("moderate", u, r, authenticate(u))
    ELSE IF requireRole(u, {"moderator", "admin", "super-admin"}) # 0
         THEN Reject("moderate", u, r, 403)
    ELSE IF r \notin DOMAIN reports THEN Reject("moderate", u, r, 404)
    ELSE IF reports[r].campusId # users[u].campusId /\ users[u].role # "super-admin"
         THEN Reject("moderate", u, r, 403)
    ELSE
        LET old == reports[r]
            new == ApplyModeration(old, u, status, moderatorNotes, assignedTo, now)
            emits == emitReportUpdate(users[u].campusId, r,
                         [status |-> new.status, moderatorNotes |-> new.moderatorNotes,
                          resolvedBy |-> new.resolvedBy, resolvedAt |-> new.resolvedAt,
                          assignedTo |-> new.assignedTo])
        IN  \* save() validates status against the schema's enum
            IF new.status \notin Statuses THEN Reject("moderate", u, r, 500)
            ELSE
                /\ reports' = [reports EXCEPT ![r] = new]
                /\ UNCHANGED <<users, comments, now>>
                /\ IF ~auditOk
                   THEN Respond("moderate", u, r, 500, TRUE, <<>>, <<>>, <<>>)
                   ELSE Respond("moderate", u, r, 200, FALSE,
                                <<logAction(u, AuditAction(status), r, <<>>,
                                            <<[status |-> old.status],
                                              [status |-> new.status]>>)>>,
                                IF statusChangedByOther(old, new, u)
                                THEN <<createNotification(old.reporterId, r,
                                           "moderator_action",
                                           IF status = "resolved" THEN "medium" ELSE "low")>>
                                ELSE <<>>,
                                emits)

(***************************************************************************)
(* The requests the routers accept, with the users and bodies drawn from   *)
(* the given sets.                                                         *)
(***************************************************************************)
EditBodies ==
    {[title |-> "t2", description |-> "", category |-> "", severity |-> 0],
     [title |-> "", description |-> "", category |-> "theft", severity |-> 4]}

Create(U) ==
    \E u \in U, r \in ReportIds, auditOk \in BOOLEAN :
        createReport(u, r, ReportBody, auditOk)

Edit(U, B) ==
    \E u \in U, r \in ReportIds, body \in B, historyLoaded \in BOOLEAN, auditOk \in BOOLEAN :
        updateReport(u, r, body, historyLoaded, auditOk)

Retract(U) ==
    \E u \in U, r \in ReportIds, auditOk \in BOOLEAN : deleteReport(u, r, auditOk)

Vote(U, V) ==
    \E u \in U, r \in ReportIds, vote \in V, auditOk \in BOOLEAN :
        voteReport(u, r, vote, auditOk)

Comment(U) ==
    \E u \in U, r \in ReportIds : addComment(u, r, "c1")

FlagSpam(U) ==
    \E u \in U, r \in ReportIds, auditOk \in BOOLEAN : reportSpam(u, r, auditOk)

Fetch(U) ==
    \E u \in U, r \in ReportIds : getReportById(u, r)

ModeratorUpdate(U, S, N, A) ==
    \E u \in U, r \in ReportIds, status \in S, notes \in N, assignedTo \in A,
       auditOk \in BOOLEAN :
        updateReportStatus(u, r, status, notes, assignedTo, auditOk)

(***************************************************************************)
(* Spec: every operation of the lifecycle, one request after another, with *)
(* an owner (s1), a user of another campus who is an admin there (a2) and  *)
(* a moderator of the report's campus (m1).                                *)
(***************************************************************************)
Next ==
    \/ Create({"s1"})
    \/ Edit({"s1"}, {[title |-> "t2", description |-> "", category |-> "", severity |-> 0]})
    \/ Retract({"s1", "a2"})
    \/ Vote({"a2"}, {"confirm"})
    \/ Comment({"a2"})
    \/ FlagSpam({"a2"})
    \/ Fetch({"a2"})
    \/ ModeratorUpdate({"m1", "a2"}, {"verified", "resolved"}, {""}, {""})

Spec == Init /\ [][Next]_vars

(***************************************************************************)
(* SpecVote: votes of three users, of both campuses.                       *)
(***************************************************************************)
NextVote ==
    \/ Create({"s1"})
    \/ Vote({"s1", "s2", "a2"}, {"confirm", "dispute", "maybe"})

SpecVote == Init /\ [][NextVote]_vars

\* C1: after any sequence of votes no user is in both votes.confirms and
\* votes.disputes, no user is listed twice in either, and confirmCount +
\* disputeCount is at most the number of distinct users holding a vote.
C1_VoteSetsDisjoint ==
    \A r \in DOMAIN reports :
        LET rep == reports[r]
        IN  /\ \A u \in UserIds : ~(BagIn(u, rep.confirms) /\ BagIn(u, rep.disputes))
            /\ \A u \in UserIds : CopiesIn(u, rep.confirms) <= 1
            /\ \A u \in UserIds : CopiesIn(u, rep.disputes) <= 1
            /\ confirmCount(rep) + disputeCount(rep)
                  <= Cardinality(BagToSet(rep.confirms) \cup BagToSet(rep.disputes))

\* Three users have voted, on both sides, and the last request was a vote.
C1_Witness ==
    /\ last.op = "vote" /\ last.code = 200
    /\ \E r \in DOMAIN reports :
          /\ confirmCount(reports[r]) = 2
          /\ disputeCount(reports[r]) = 1

(***************************************************************************)
(* SpecSpam: spam flags of six users on a report that a moderator may have *)
(* verified or resolved, with a vote and a comment in between.             *)
(***************************************************************************)
NextSpam ==
    \/ Create({"s1"})
    \/ FlagSpam(UserIds)
    \/ ModeratorUpdate({"m1"}, {"verified", "resolved"}, {""}, {""})
    \/ Vote({"s2"}, {"confirm"})
    \/ Comment({"s2"})

SpecSpam == Init /\ [][NextSpam]_vars

SpamReporters(rep) == Cardinality(BagToSet(rep.spamReports))

NextEdit ==
    \/ Tick
    \/ Create({"s1"})
    \/ Edit({"s1", "s2"}, EditBodies)
    \/ Retract({"s1"})
    \/ ModeratorUpdate({"m1"}, {"verified"}, {""}, {""})

SpecEdit == Init /\ [][NextEdit]_vars

\* C3: an Edit succeeds exactly when the editor is the reporter, the status
\* is reported and less than 30 minutes have passed since creation (the audit
\* store being available); any other Edit is answered 403, leaves the report
\* unchanged and writes no audit entry.
C3_EditWindow ==
    [][\A u \in UserIds, r \in DOMAIN reports, body \in EditBodies,
          historyLoaded \in BOOLEAN :
          updateReport(u, r, body, historyLoaded, TRUE) =>
              LET allowed == /\ reports[r].reporterId = u
                             /\ reports[r].status = "reported"
                             /\ now - reports[r].createdAt < 30 * 60 * 1000
              IN  /\ allowed <=> last'.code = 200
                  /\ ~allowed => /\ last'.code = 403
                                 /\ reports' = reports
                                 /\ audited' = <<>>]_vars

\* C4: a report has resolvedBy and resolvedAt set if and only if its status
\* is resolved.
C4_ResolvedIffStatus ==
    \A r \in DOMAIN reports :
        (reports[r].resolvedBy # NoId /\ reports[r].resolvedAt # NoDate)
            <=> reports[r].status = "resolved"

\* C5: a request of a user who is not super-admin, addressed to a report of
\* another campus than the user's, is rejected and leaves the report as it
\* was, view count included.
C5_CampusIsolation ==
    [][\A r \in DOMAIN reports :
          (/\ now' = now
           /\ last'.report = r
           /\ last'.actor \in UserIds
           /\ users[last'.actor].role # "super-admin"
           /\ users[last'.actor].campusId # reports[r].campusId)
              => (reports'[r] = reports[r] /\ last'.code \notin {200, 201})]_vars

\* C6: once the status is verified, investigating, resolved, invalid or spam,
\* no Vote, Comment or FlagSpam changes it.
C6_CrowdLeavesStatus ==
    [][\A r \in DOMAIN reports :
          (/\ now' = now
           /\ last'.report = r
           /\ last'.op \in {"vote", "comment", "spam"}
           /\ reports[r].status \in Statuses \ {"reported"})
              => reports'[r].status = reports[r].status]_vars

AuditActionsOf(op) ==
    CASE op = "create" -> {"create_report"}
      [] op = "edit" -> {"edit_report"}
      [] op = "delete" -> {"delete_report"}
      [] op = "vote" -> {"vote_report"}
      [] op = "spam" -> {"report_spam"}
      [] op = "moderate" -> {"verify_report", "invalidate_report", "resolve_report"}
      [] OTHER -> {}

\* C7: every mutating operation answered with success has written exactly
\* one audit entry, which names the actor, the action and the report.
C7_MutationAudited ==
    (/\ last.op \in {"create", "edit", "delete", "vote", "comment", "spam", "moderate"}
     /\ last.code \in {200, 201})
        => /\ Len(audited) = 1
           /\ audited[1].actorId = last.actor
           /\ audited[1].entityId = last.report
           /\ audited[1].action \in AuditActionsOf(last.op)

\* C8: a request whose audit write fails is answered with an error and leaves
\* every report as it was before the request.
C8_AuditFailureUndoes ==
    [][(now' = now /\ last'.auditFailed)
          => (last'.code = 500 /\ reports' = reports)]_vars

(***************************************************************************)
(* SpecModeration: staff of both campuses, a student and a super-admin send*)
(* every status, a missing status and a status outside the enumeration.    *)
(***************************************************************************)
ModerationStatuses == Statuses \cup {"", "bogus"}

ModerationNotes == {"", "n1"}

ModerationAssignees == {"", "g1"}

NextModeration ==
    \/ Create({"s1", "m1"})
    \/ ModeratorUpdate({"s2", "m1", "a2", "x2"}, ModerationStatuses,
                       ModerationNotes, ModerationAssignees)

SpecModeration == Init /\ [][NextModeration]_vars

\* C9: every successful ModeratorUpdate appends exactly one audit entry, of
\* action verify_report for the status verified, invalidate_report for
\* invalid and resolve_report for any other or no status, whose changes hold
\* the status before and the status after; reported -> resolved is logged as
\* resolve_report with before reported and after resolved, and sets
\* resolvedBy and resolvedAt.
C9_ModeratorAudit ==
    [][(last'.op = "moderate" /\ last'.code = 200) =>
          \A status \in ModerationStatuses, moderatorNotes \in ModerationNotes,
             assignedTo \in ModerationAssignees :
              updateReportStatus(last'.actor, last'.report, status,
                                 moderatorNotes, assignedTo, TRUE) =>
                  LET r == last'.report
                      expected == CASE status = "verified" -> "verify_report"
                                    [] status = "invalid" -> "invalidate_report"
                                    [] OTHER -> "resolve_report"
                  IN  /\ Len(audited') = 1
                      /\ audited'[1].action = expected
                      /\ audited'[1].actorId = last'.actor
                      /\ audited'[1].entityId = r
                      /\ audited'[1].changes =
                             <<[status |-> reports[r].status],
                               [status |-> reports'[r].status]>>
                      /\ (reports[r].status = "reported" /\ status = "resolved")
                            => /\ audited'[1].action = "resolve_report"
                               /\ audited'[1].changes =
                                      <<[status |-> "reported"], [status |-> "resolved"]>>
                               /\ reports'[r].resolvedBy = last'.actor
                               /\ reports'[r].resolvedAt = now]_vars

C9_Witness ==
    /\ last.op = "moderate" /\ last.code = 200
    /\ Len(audited) = 1
    /\ audited[1].action = "resolve_report"
    /\ audited[1].changes = <<[status |-> "reported"], [status |-> "resolved"]>>
    /\ reports[last.report].resolvedBy = "m1"

(***************************************************************************)
(* SpecRetract: every user retracts reports of a student, a moderator and  *)
(* an admin, before and after moderation.                                  *)
(***************************************************************************)
NextRetract ==
    \/ Create({"s1", "m1", "a2"})
    \/ Retract(UserIds)
    \/ ModeratorUpdate({"m1"}, {"verified", "resolved"}, {""}, {""})

SpecRetract == Init /\ [][NextRetract]_vars

\* C10: Retract is permitted exactly when the actor is the reporter or is
\* admin or super-admin; permitted, it sets the status to invalid, publishes
\* no event and, the audit store being available, appends one delete_report
\* entry; otherwise it is answered 403 and the report and the audit log stay
\* unchanged.
C10_Retract ==
    [][(last'.op = "delete" /\ last'.report \in DOMAIN reports) =>
          \A auditOk \in BOOLEAN :
              deleteReport(last'.actor, last'.report, auditOk) =>
                  LET u == last'.actor
                      r == last'.report
                      permitted == \/ reports[r].reporterId = u
                                   \/ users[u].role \in {"admin", "super-admin"}
                  IN  IF permitted
                      THEN /\ reports'[r].status = "invalid"
                           /\ emitted' = <<>>
                           /\ notified' = <<>>
                           /\ auditOk => /\ last'.code = 200
                                         /\ Len(audited') = 1
                                         /\ audited'[1].action = "delete_report"
                                         /\ audited'[1].actorId = u
                                         /\ audited'[1].entityId = r
                      ELSE /\ last'.code = 403
                           /\ reports' = reports
                           /\ audited' = <<>>]_vars

C10_Witness ==
    /\ last.op = "delete" /\ last.code = 200 /\ last.actor = "a2"
    /\ reports[last.report].reporterId = "s1"
    /\ reports[last.report].status = "invalid"
    /\ Len(audited) = 1 /\ audited[1].action = "delete_report"

\* C11: a Vote removes the actor from the opposite array if present and adds
\* the actor to the requested array only if absent, leaving every other
\* user's entries in both arrays as they were; the same vote applied again
\* changes nothing; with two users in confirms, a dispute by one of them ends
\* with confirmCount = 1, disputeCount = 1 and netVotes = 0.
C11_VoteEffect ==
    [][(last'.op = "vote" /\ last'.report \in DOMAIN reports) =>
          \A vote \in {"confirm", "dispute"}, auditOk \in BOOLEAN :
              voteReport(last'.actor, last'.report, vote, auditOk) =>
                  LET u == last'.actor
                      old == reports[last'.report]
                      new == reports'[last'.report]
                      asked(rep) == IF vote = "confirm" THEN rep.confirms ELSE rep.disputes
                      opposite(rep) == IF vote = "confirm" THEN rep.disputes ELSE rep.confirms
                  IN  /\ CopiesIn(u, opposite(new)) = 0
                      /\ CopiesIn(u, asked(new)) =
                             IF BagIn(u, asked(old)) THEN CopiesIn(u, asked(old)) ELSE 1
                      /\ \A w \in UserIds \ {u} :
                            /\ CopiesIn(w, new.confirms) = CopiesIn(w, old.confirms)
                            /\ CopiesIn(w, new.disputes) = CopiesIn(w, old.disputes)
                      /\ addVote(new, u, vote) = new
                      /\ (/\ vote = "dispute"
                          /\ confirmCount(old) = 2 /\ disputeCount(old) = 0
                          /\ BagIn(u, old.confirms))
                            => /\ confirmCount(new) = 1
                               /\ disputeCount(new) = 1
                               /\ netVotes(new) = 0]_vars

\* Two users had confirmed and one of them has just switched to dispute.
C11_Witness ==
    /\ last.op = "vote" /\ last.code = 200 /\ last.report \in DOMAIN reports
    /\ LET rep == reports[last.report]
       IN  /\ BagToSet(rep.disputes) = {last.actor}
           /\ confirmCount(rep) = 1 /\ disputeCount(rep) = 1 /\ netVotes(rep) = 0

\* C12: a FlagSpam by an actor already among the spam reporters leaves the
\* spam reporters unchanged, so no actor is ever listed more than once and
\* each FlagSpam grows the list by at most one.
C12_FlagSpamIdempotent ==
    [][(last'.op = "spam" /\ last'.report \in DOMAIN reports) =>
          \A auditOk \in BOOLEAN :
              reportSpam(last'.actor, last'.report, auditOk) =>
                  LET u == last'.actor
                      old == reports[last'.report]
                      new == reports'[last'.report]
                  IN  /\ BagIn(u, old.spamReports) => new.spamReports = old.spamReports
                      /\ CopiesIn(u, new.spamReports) = 1
                      /\ BagCardinality(new.spamReports)
                            <= BagCardinality(old.spamReports) + 1
                      /\ addSpamReport(new, u).spamReports = new.spamReports]_vars

\* A flag has been answered 200 and its actor is listed once, among three.
C12_Witness ==
    /\ last.op = "spam" /\ last.code = 200 /\ last.report \in DOMAIN reports
    /\ Len(audited) = 1 /\ audited[1].actorId = last.actor
    /\ LET rep == reports[last.report]
       IN  /\ CopiesIn(last.actor, rep.spamReports) = 1
           /\ BagCardinality(rep.spamReports) = 3
           /\ ~rep.isSpam

\* C13: between requests, after a FlagSpam answered with an error included, a
\* report has isSpam = TRUE if and only if it has at least 5 spam reporters.
C13_SpamFlagMatchesCount ==
    \A r \in DOMAIN reports :
        reports[r].isSpam <=> SpamReporters(reports[r]) >= 5

\* C14: no event that a user without the role moderator, admin or super-admin
\* can receive carries the moderatorNotes of a report.
C14_NotesNotDisclosed ==
    \A i \in 1..Len(emitted) :
        \A u \in RoomMembers(emitted[i].room) :
            ~canModerate(u) =>
                \/ "moderatorNotes" \notin DOMAIN emitted[i].data
                \/ emitted[i].data.moderatorNotes = NoText

(***************************************************************************)
(* Requests that overlap.  A handler suspends at every await: between its  *)
(* Report.findById and its save() another request may read or write the    *)
(* same report.  inflight holds, per request in progress, the document it  *)
(* loaded.  The audit store is available in these steps.                   *)
(***************************************************************************)
Slots == {"q1", "q2"}

BagPaths == {"confirms", "disputes", "spamReports"}

\* An array assigned anew (votes.x = votes.x.filter(..) that removed an entry)
\* is written whole and under the version read at load time.
ReplacesArray(loaded, modified) ==
    \E p \in BagPaths : ~(loaded[p] \sqsubseteq modified[p])

\* Any write to an array moves the document's version.
WritesArray(loaded, modified) ==
    \E p \in BagPaths \cup {"editHistory"} : modified[p] # loaded[p]

\* save() writing the whole in-memory document.
saveWholeDocument(stored, loaded, modified) == modified

\* save() of a loaded document writes the modified paths only: a changed
\* scalar is set to its in-memory value, the entries pushed to an array are
\* pushed to the stored array, an array assigned anew replaces the stored one.
save(stored, loaded, modified) ==
    [p \in DOMAIN stored |->
        IF modified[p] = loaded[p] THEN stored[p]
        ELSE IF p \in BagPaths /\ loaded[p] \sqsubseteq modified[p]
             THEN stored[p] (+) (modified[p] (-) loaded[p])
        ELSE IF p = "editHistory"
             THEN stored[p] \o SubSeq(modified[p], Len(loaded[p]) + 1, Len(modified[p]))
        ELSE modified[p]]

\* const report = await Report.findById(id), past the handler's early returns.
findById(q, op, u, r, arg) ==
    /\ q \notin DOMAIN inflight
    /\ authenticate(u) = 0
    /\ r \in DOMAIN reports
    /\ op = "edit" => canEdit(reports[r], u, now) /\ Len(reports[r].editHistory) < MaxEdits
    /\ op = "comment" => reports[r].commentsCount < MaxComments
    /\ op = "view" => reports[r].viewsCount < MaxViews
    /\ inflight' = inflight @@
          (q :> [op |-> op, actor |-> u, report |-> r, arg |-> arg,
                 doc |-> reports[r], stale |-> FALSE, created |-> FALSE])
    /\ UNCHANGED <<users, reports, comments, now, last, audited, notified, emitted,
                   auditLog, sockets>>

\* The other requests in progress, after request q has written (or not) an
\* array of its report.
Others(q, movesVersion) ==
    [o \in DOMAIN inflight \ {q} |->
        IF movesVersion /\ inflight[o].report = inflight[q].report
        THEN [inflight[o] EXCEPT !.stale = TRUE]
        ELSE inflight[o]]

\* await report.save() and what follows it in the handler.  A save that
\* replaces an array finds no document of the version it read when another
\* array write came in between: VersionError, answered 500 by the catch.
saveAndAnswer(q, modified, code, aud, notes, emits) ==
    LET req == inflight[q]
    IN  /\ UNCHANGED <<users, now>>
        /\ IF ReplacesArray(req.doc, modified) /\ req.stale
           THEN /\ UNCHANGED reports
                /\ inflight' = Others(q, FALSE)
                /\ Written(req.op, req.actor, req.report, 500, FALSE, <<>>, <<>>, <<>>)
           ELSE /\ reports' = [reports EXCEPT
                                  ![req.report] = save(@, req.doc, modified)]
                /\ inflight' = Others(q, WritesArray(req.doc, modified))
                /\ Written(req.op, req.actor, req.report, code, FALSE, aud, notes, emits)

\* voteReport from report.addVote on
voteReportSave(q) ==
    /\ inflight[q].op = "vote"
    /\ UNCHANGED comments
    /\ LET req == inflight[q]
       IN  saveAndAnswer(q, addVote(req.doc, req.actor, req.arg), 200,
               <<logAction(req.actor, "vote_report", req.report, <<req.arg>>, <<>>)>>,
               <<>>, <<>>)

\* updateReport from the assignments on
updateReportSave(q, historyLoaded) ==
    /\ inflight[q].op = "edit"
    /\ UNCHANGED comments
    /\ LET req == inflight[q]
           body == req.arg
           upd == [req.doc EXCEPT !.title = OrElse(body.title, @),
                                  !.description = OrElse(body.description, @),
                                  !.category = OrElse(body.category, @),
                                  !.severity = OrElseNum(body.severity, @),
                                  !.isEdited = TRUE,
                                  !.editedAt = now]
           new == [upd EXCEPT !.editHistory =
                       Append(@, [editedAt |-> now, changes |-> Content(upd)])]
       IN  IF ~historyLoaded
           THEN /\ UNCHANGED <<users, reports, now>>
                /\ inflight' = Others(q, FALSE)
                /\ Written("edit", req.actor, req.report, 500, FALSE, <<>>, <<>>, <<>>)
           ELSE saveAndAnswer(q, new, 200,
                    <<logAction(req.actor, "edit_report", req.report, <<>>,
                                <<Content(req.doc), Content(new)>>)>>,
                    <<>>,
                    emitReportUpdate(users[req.actor].campusId, req.report,
                        [title |-> new.title, description |-> new.description,
                         category |-> new.category, severity |-> new.severity,
                         isEdited |-> TRUE, editedAt |-> new.editedAt]))

\* addComment: await Comment.create(..)
addCommentCreate(q) ==
    /\ inflight[q].op = "comment"
    /\ ~inflight[q].created
    /\ comments' = Append(comments, [reportId |-> inflight[q].report,
                                     userId |-> inflight[q].actor,
                                     content |-> inflight[q].arg])
    /\ inflight' = [inflight EXCEPT ![q].created = TRUE]
    /\ UNCHANGED <<users, reports, now, last, audited, notified, emitted, auditLog,
                   sockets>>

\* addComment: report.commentsCount += 1; await report.save() and the rest
addCommentSave(q) ==
    /\ inflight[q].op = "comment"
    /\ inflight[q].created
    /\ UNCHANGED comments
    /\ LET req == inflight[q]
           comment == [reportId |-> req.report, userId |-> req.actor,
                       content |-> req.arg]
       IN  saveAndAnswer(q, [req.doc EXCEPT !.commentsCount = @ + 1], 201, <<>>,
               IF req.doc.reporterId # req.actor
               THEN <<createNotification(req.doc.reporterId, req.report,
                                         "comment_reply", "low")>>
               ELSE <<>>,
               emitNewComment(req.report, comment))

\* getReportById: await report.incrementViews() and the response
getReportByIdSave(q) ==
    /\ inflight[q].op = "view"
    /\ UNCHANGED comments
    /\ saveAndAnswer(q, incrementViews(inflight[q].doc), 200, <<>>, <<>>, <<>>)

BeginVote(U, V) ==
    \E q \in Slots, u \in U, r \in ReportIds, vote \in V : findById(q, "vote", u, r, vote)

BeginEdit(U, B) ==
    \E q \in Slots, u \in U, r \in ReportIds, body \in B : findById(q, "edit", u, r, body)

BeginComment(U) ==
    \E q \in Slots, u \in U, r \in ReportIds : findById(q, "comment", u, r, "c1")

BeginFetch(U) ==
    \E q \in Slots, u \in U, r \in ReportIds : findById(q, "view", u, r, "")

FinishVote == \E q \in DOMAIN inflight : voteReportSave(q)

FinishEdit == \E q \in DOMAIN inflight, historyLoaded \in BOOLEAN :
                  updateReportSave(q, historyLoaded)

CreateComment == \E q \in DOMAIN inflight : addCommentCreate(q)

FinishComment == \E q \in DOMAIN inflight : addCommentSave(q)

FinishFetch == \E q \in DOMAIN inflight : getReportByIdSave(q)

(***************************************************************************)
(* SpecCount: comments and detail fetches of two users, up to two of them  *)
(* in progress at a time.                                                  *)
(***************************************************************************)
NextCount ==
    \/ Create({"s1"})
    \/ BeginComment({"s1", "s2"})
    \/ CreateComment
    \/ FinishComment
    \/ BeginFetch({"s1", "m1"})
    \/ FinishFetch

SpecCount == Init /\ [][NextCount]_vars

CommentsOf(r) == {i \in 1..Len(comments) : comments[i].reportId = r}

\* C15: with no Comment request in progress, the commentsCount of a report is
\* the number of Comments created for it.
C15_CommentsCounted ==
    DOMAIN inflight = {} =>
        \A r \in DOMAIN reports : reports[r].commentsCount = Cardinality(CommentsOf(r))

\* C17: every completed detail fetch of a report leaves its viewsCount
\* exactly 1 higher than it was before the fetch completed.
C17_ViewCounted ==
    [][\A q \in DOMAIN inflight :
          getReportByIdSave(q) =>
              reports'[inflight[q].report].viewsCount
                  = reports[inflight[q].report].viewsCount + 1]_vars

(***************************************************************************)
(* SpecRace: votes of the owner, who may switch, confirmations of another  *)
(* user and an edit by the owner, up to two of them in progress at a time. *)
(***************************************************************************)
RaceBodies == {[title |-> "t2", description |-> "", category |-> "", severity |-> 0]}

NextRace ==
    \/ Create({"s1"})
    \/ BeginVote({"s1"}, {"confirm", "dispute"})
    \/ BeginVote({"s2"}, {"confirm"})
    \/ FinishVote
    \/ BeginEdit({"s1"}, RaceBodies)
    \/ FinishEdit

SpecRace == Init /\ [][NextRace]_vars

MaxLimit == 2

Square(n) == n * n

\* $near with $maxDistance: within radiusMeters of the point.
Within(location, longitude, latitude, radiusMeters) ==
    Square(1000 * (location[1] - longitude)) + Square(1000 * (location[2] - latitude))
        <= Square(radiusMeters)

Matches(rep, longitude, latitude, radiusMeters, filters) ==
    /\ Within(rep.location, longitude, latitude, radiusMeters)
    /\ filters.category # "" => rep.category = filters.category
    /\ filters.severity # 0 => rep.severity >= filters.severity
    /\ IF filters.status # "" THEN rep.status = filters.status
       ELSE rep.status \in {"reported", "verified", "investigating", "resolved"}
    /\ filters.since # 0 => rep.createdAt >= filters.since

\* findNearby without campusId in the query.
findNearbyAnyCampus(campusId, longitude, latitude, radiusMeters, filters) ==
    {r \in DOMAIN reports : Matches(reports[r], longitude, latitude, radiusMeters, filters)}

findNearby(campusId, longitude, latitude, radiusMeters, filters) ==
    {r \in DOMAIN reports :
        /\ reports[r].campusId = campusId
        /\ Matches(reports[r], longitude, latitude, radiusMeters, filters)}

\* .sort({ createdAt: -1 }).limit(n): the n most recent of the set.
Limit(found, n) ==
    IF Cardinality(found) <= n THEN found
    ELSE CHOOSE T \in SUBSET found :
             /\ Cardinality(T) = n
             /\ \A a \in T, b \in found \ T : reports[a].createdAt >= reports[b].createdAt

\* GET /reports/nearby, behind validate(getNearbySchema, "query"), which
\* converts the query: a coordinate 0 is falsy in the handler's test.
getNearbyReports(u, lat, lon, radius, filters, limit) ==
    /\ UNCHANGED <<users, reports, comments, now, audited, notified, emitted, inflight,
                   auditLog, sockets>>
    /\ LET code == IF authenticate(u) # 0 THEN authenticate(u)
                   ELSE IF radius < 100 \/ radius > 10000 THEN 400
                   ELSE IF lat = 0 \/ lon = 0 THEN 400
                   ELSE 200
       IN  last' = [op |-> "nearby", actor |-> u, report |-> NoId, code |-> code,
                    auditFailed |-> FALSE,
                    data |-> IF code = 200
                             THEN Limit(findNearby(users[u].campusId, lon, lat,
                                                   radius, filters), limit)
                             ELSE {}]

NearbyIds == {"n1", "n2"}

Coordinates == {0, 1, 4}

Radii == {50, 100, 10000}

NearbyFilters ==
    [category : {"", "theft"}, severity : {0, 4}, status : {"", "spam"}, since : {0, 5}]

\* Stored reports of both campuses: a recent severe theft or an older safety
\* report, at one of two places, reported or marked as spam.
NearbyDocs ==
    {[NewReport(u, [ReportBody EXCEPT !.category = IF recent THEN "theft" ELSE "safety",
                                      !.severity = IF recent THEN 5 ELSE 3,
                                      !.location = <<1, y>>],
                IF recent THEN 9 ELSE 0)
         EXCEPT !.status = st] :
        u \in {"s1", "a2"}, recent \in BOOLEAN, y \in {1, 4}, st \in {"reported", "spam"}}

InitNearby ==
    /\ users = InitUsers
    /\ reports \in [NearbyIds -> NearbyDocs]
    /\ comments = <<>>
    /\ now = 9
    /\ last = [op |-> "none", actor |-> NoId, report |-> NoId, code |-> 0,
               auditFailed |-> FALSE, data |-> {}]
    /\ audited = <<>>
    /\ notified = <<>>
    /\ emitted = <<>>
    /\ inflight = <<>>
    /\ auditLog = Untracked
    /\ sockets = <<>>

Nearby(U) ==
    \E u \in U, lat \in Coordinates \ {0}, lon \in Coordinates \ {4}, radius \in Radii,
       filters \in NearbyFilters, limit \in 1..MaxLimit :
        getNearbyReports(u, lat, lon, radius, filters, limit)

NextNearby == Nearby({"s1", "a2"})

SpecNearby == InitNearby /\ [][NextNearby]_vars

\* C18: findNearby returns only reports whose campusId is the requested one,
\* for every position, every radius from 100 to 10000 and every combination
\* of the category, severity, status and since filters; so does the nearby
\* listing answered to a user.
C18_NearbySameCampus ==
    /\ \A campusId \in {"A", "B"}, lon \in Coordinates, lat \in Coordinates,
          radius \in Radii \ {50}, filters \in NearbyFilters :
          \A r \in findNearby(campusId, lon, lat, radius, filters) :
              reports[r].campusId = campusId
    /\ last.op = "nearby" =>
          \A r \in last.data : reports[r].campusId = users[last.actor].campusId

\* A listing was answered with a report while a report of another campus lay
\* at the same place with the same content and status.
C18_Witness ==
    /\ last.op = "nearby" /\ last.code = 200
    /\ \E r \in last.data, o \in DOMAIN reports \ last.data :
          /\ reports[o].campusId # reports[r].campusId
          /\ reports[o].location = reports[r].location
          /\ reports[o].category = reports[r].category
          /\ reports[o].severity = reports[r].severity
          /\ reports[o].status = reports[r].status
          /\ reports[o].createdAt = reports[r].createdAt

Roles == {"student", "moderator", "admin", "security", "super-admin"}

\* PATCH /admin/users/:id.  A field the body leaves out is "" (role) or the
\* empty sequence (isActive, isBanned).
updateUser(u, id, role, isActive, isBanned, auditOk) ==
    IF authenticate(u) # 0 THEN Reject("updateUser", u, NoId, authenticate(u))
    ELSE IF requireRole(u, {"admin", "super-admin"}) # 0
         THEN Reject("updateUser", u, NoId, 403)
    ELSE IF id \notin DOMAIN users THEN Reject("updateUser", u, NoId, 404)
    ELSE IF users[id].campusId # users[u].campusId /\ users[u].role # "super-admin"
         THEN Reject("updateUser", u, NoId, 403)
    ELSE
        LET u1 == IF role = "" THEN users[id] ELSE [users[id] EXCEPT !.role = role]
            u2 == IF isActive = <<>> THEN u1 ELSE [u1 EXCEPT !.isActive = isActive[1]]
            u3 == IF isBanned = <<>> THEN u2 ELSE [u2 EXCEPT !.isBanned = isBanned[1]]
        IN  \* save() validates role against the schema's enum
            IF u3.role \notin Roles THEN Reject("updateUser", u, NoId, 500)
            ELSE
                /\ users' = [users EXCEPT ![id] = u3]
                /\ UNCHANGED <<reports, comments, now>>
                /\ IF ~auditOk
                   THEN Respond("updateUser", u, NoId, 500, TRUE, <<>>, <<>>, <<>>)
                   ELSE Respond("updateUser", u, NoId, 200, FALSE,
                                <<[logAction(u, "change_user_role", id, <<role>>, <<>>)
                                     EXCEPT !.entityType = "user"]>>,
                                <<>>, <<>>)

UpdateUser(U, T, R) ==
    \E u \in U, id \in T, role \in R, auditOk \in BOOLEAN :
        updateUser(u, id, role, <<>>, <<>>, auditOk)

(***************************************************************************)
(* SpecAssign: a moderator assigns a report to security staff, to a        *)
(* student and to nobody known, while admins change users' roles.          *)
(***************************************************************************)
NextAssign ==
    \/ Create({"s1"})
    \/ ModeratorUpdate({"m1"}, {"", "verified"}, {""}, {"", "g1", "s2", "zz"})
    \/ UpdateUser({"a2", "x2"}, {"g1", "s2"}, {"student", "security", "bogus"})

SpecAssign == Init /\ [][NextAssign]_vars

\* C20: in every reachable state the assignedTo of a report is unset or
\* names an existing user whose role is security.
C20_AssigneeIsSecurity ==
    \A r \in DOMAIN reports :
        \/ reports[r].assignedTo = NoId
        \/ /\ reports[r].assignedTo \in DOMAIN users
           /\ users[reports[r].assignedTo].role = "security"

(***************************************************************************)
(* Reading the audit log.                                                  *)
(***************************************************************************)
Reverse(seq) == [i \in 1..Len(seq) |-> seq[Len(seq) + 1 - i]]

RECURSIVE Filter(_, _)
\* AuditLog.find(query): the entries whose reportId is the query's, or all.
Filter(seq, reportId) ==
    IF seq = <<>> THEN <<>>
    ELSE IF reportId = "" \/ Head(seq).reportId = reportId
         THEN <<Head(seq)>> \o Filter(Tail(seq), reportId)
         ELSE Filter(Tail(seq), reportId)

\* .limit(limit).skip(skip)
Page(seq, limit, skip) ==
    SubSeq(seq, skip + 1, IF skip + limit < Len(seq) THEN skip + limit ELSE Len(seq))

\* GET /moderation/audit, behind authenticate and requireRole of the router.
getAuditLogs(u, reportId, limit, page) ==
    /\ UNCHANGED <<users, reports, comments, now, audited, notified, emitted, inflight,
                   auditLog, sockets>>
    /\ LET code == IF authenticate(u) # 0 THEN authenticate(u)
                   ELSE requireRole(u, {"moderator", "admin", "super-admin"})
           found == Filter(Reverse(auditLog.entries), reportId)
       IN  last' = [op |-> "audit", actor |-> u,
                    report |-> IF reportId = "" THEN NoId ELSE reportId,
                    code |-> IF code = 0 THEN 200 ELSE code,
                    auditFailed |-> FALSE,
                    data |-> IF code = 0
                             THEN [logs |-> Page(found, limit, (page - 1) * limit),
                                   total |-> Len(found), page |-> page, limit |-> limit]
                             ELSE [logs |-> <<>>, total |-> 0, page |-> page,
                                   limit |-> limit]]

ReadAudit(U, R, L, P) ==
    \E u \in U, reportId \in R, limit \in L, page \in P :
        getAuditLogs(u, reportId, limit, page)

InitAudit ==
    /\ users = InitUsers
    /\ reports = <<>>
    /\ comments = <<>>
    /\ now = 0
    /\ last = [op |-> "none", actor |-> NoId, report |-> NoId, code |-> 0,
               auditFailed |-> FALSE, data |-> {}]
    /\ audited = <<>>
    /\ notified = <<>>
    /\ emitted = <<>>
    /\ inflight = <<>>
    /\ auditLog = [kept |-> TRUE, entries |-> <<>>]
    /\ sockets = <<>>

(***************************************************************************)
(* SpecAudit: the operations that write audit entries, with the collection *)
(* kept entry by entry, and a moderator and a student reading it.          *)
(***************************************************************************)
NextAudit ==
    \/ Create({"s1"})
    \/ Edit({"s1"}, RaceBodies)
    \/ Retract({"s1"})
    \/ Vote({"s2"}, {"confirm"})
    \/ FlagSpam({"s2"})
    \/ ModeratorUpdate({"m1"}, {"verified"}, {""}, {""})
    \/ ReadAudit({"m1", "s2"}, {"r1"}, {MaxAudit}, {1})
    \/ ReadAudit({"m1"}, {""}, {1}, {1, 2})

SpecAudit == InitAudit /\ [][NextAudit]_vars

\* The entries recorded for an operation on report r, most recent first.
RECURSIVE RecordedFor(_, _)
RecordedFor(seq, r) ==
    IF seq = <<>> THEN <<>>
    ELSE IF Head(seq).entityType = "report" /\ Head(seq).entityId = r
         THEN <<Head(seq)>> \o RecordedFor(Tail(seq), r)
         ELSE RecordedFor(Tail(seq), r)

\* C21: the audit log read with a report as filter returns the entries
\* recorded for the operations on that report, most recent first, up to the
\* requested limit.
C21_AuditByReport ==
    (last.op = "audit" /\ last.code = 200 /\ last.report # NoId /\ last.data.page = 1)
        => last.data.logs =
              Page(RecordedFor(Reverse(auditLog.entries), last.report), last.data.limit, 0)

\* C22: the audit log only grows at its end: after every step it holds the
\* entries it held before, unchanged and in place, then the new ones.
C22_AuditAppendOnly ==
    [][/\ Len(auditLog.entries) <= Len(auditLog'.entries)
       /\ SubSeq(auditLog'.entries, 1, Len(auditLog.entries)) = auditLog.entries]_vars

\* Three operations have been recorded one after another.
C22_Witness ==
    /\ Len(auditLog.entries) = 3
    /\ auditLog.entries[1].action = "create_report"
    /\ auditLog.entries[2].action = "vote_report"
    /\ auditLog.entries[3].action = "delete_report"
    /\ audited = <<auditLog.entries[3]>>

(***************************************************************************)
(* socketService.js: connections and their rooms.  A socket is a record   *)
(* of the user it authenticated as and the rooms it has joined; a room is *)
(* a pair <<kind, id>> for the string "kind:id".                           *)
(***************************************************************************)
SocketIds == {"k1", "k2"}

roleRoomsAnyRole(role, campusId) == {<<role, campusId>>}

roleRooms(role, campusId) ==
    IF role \in {"moderator", "admin", "super-admin"}
    THEN {<<role, campusId>>}
    ELSE {}

\* io.use(..) then io.on("connection", ..): a missing user or an inactive
\* one gets no connection.
connection(k, u) ==
    /\ k \notin DOMAIN sockets
    /\ u \in DOMAIN users
    /\ users[u].isActive
    /\ sockets' = sockets @@
          (k :> [userId |-> u, campusId |-> users[u].campusId, role |-> users[u].role,
                 rooms |-> {<<"campus", users[u].campusId>>}
                              \cup roleRooms(users[u].role, users[u].campusId)])
    /\ UNCHANGED <<users, reports, comments, now, last, audited, notified, emitted,
                   inflight, auditLog>>

join_report(k, reportId) ==
    /\ k \in DOMAIN sockets
    /\ sockets' = [sockets EXCEPT ![k].rooms = @ \cup {<<"report", reportId>>}]
    /\ UNCHANGED <<users, reports, comments, now, last, audited, notified, emitted,
                   inflight, auditLog>>

leave_report(k, reportId) ==
    /\ k \in DOMAIN sockets
    /\ sockets' = [sockets EXCEPT ![k].rooms = @ \ {<<"report", reportId>>}]
    /\ UNCHANGED <<users, reports, comments, now, last, audited, notified, emitted,
                   inflight, auditLog>>

\* The socket leaves every room and is gone.
disconnect(k) ==
    /\ k \in DOMAIN sockets
    /\ sockets' = [j \in DOMAIN sockets \ {k} |-> sockets[j]]
    /\ UNCHANGED <<users, reports, comments, now, last, audited, notified, emitted,
                   inflight, auditLog>>

Connect(K, U) == \E k \in K, u \in U : connection(k, u)

JoinReport(K, R) == \E k \in K, r \in R : join_report(k, r)

LeaveReport(K, R) == \E k \in K, r \in R : leave_report(k, r)

Disconnect(K) == \E k \in K : disconnect(k)

NextSocket ==
    \/ Create({"s1"})
    \/ Edit({"s1"}, RaceBodies)
    \/ Comment({"s2"})
    \/ ModeratorUpdate({"m1"}, {"verified"}, {""}, {""})
    \/ Connect({"k1"}, {"s1", "a2"})
    \/ Connect({"k2"}, {"s1", "m1"})
    \/ JoinReport(SocketIds, {"r1"})
    \/ LeaveReport(SocketIds, {"r1"})
    \/ Disconnect(SocketIds)

SpecSocket == Init /\ [][NextSocket]_vars

C24_Subscriptions ==
    [][\A k \in SocketIds :
         /\ (k \notin DOMAIN sockets /\ k \in DOMAIN sockets') =>
               LET u == sockets'[k].userId
                   privileged == users[u].role \in {"moderator", "admin", "super-admin"}
               IN  sockets'[k].rooms =
                      {<<"campus", users[u].campusId>>}
                         \cup (IF privileged THEN {<<users[u].role, users[u].campusId>>}
                                ELSE {})
         /\ \A r \in ReportIds :
               LET member == k \in DOMAIN sockets /\ <<"report", r>> \in sockets[k].rooms
                   memberAfter ==
                       k \in DOMAIN sockets' /\ <<"report", r>> \in sockets'[k].rooms
               IN  /\ join_report(k, r) => memberAfter
                   /\ (leave_report(k, r) \/ disconnect(k)) => ~memberAfter
                   /\ (~member /\ memberAfter) => join_report(k, r)
                   /\ (member /\ ~memberAfter) => (leave_report(k, r) \/ disconnect(k))
         /\ (k \in DOMAIN sockets /\ k \in DOMAIN sockets') =>
               {m \in sockets'[k].rooms : m[1] # "report"}
                  = {m \in sockets[k].rooms : m[1] # "report"}]_vars

\* A moderator's socket in its campus and role rooms, and a student's socket
\* that has joined the room of a report.
C24_Witness ==
    /\ DOMAIN sockets = SocketIds
    /\ sockets["k2"].userId = "m1"
    /\ sockets["k2"].rooms = {<<"campus", "A">>, <<"moderator", "A">>}
    /\ sockets["k1"].userId = "s1"
    /\ sockets["k1"].rooms = {<<"campus", "A">>, <<"report", "r1">>}

(***************************************************************************)
(* moderation.controller.js banUser, and requests of banned users.         *)
(***************************************************************************)
emitModeratorAction(campusId, action) ==
    <<Emit(<<"moderator", campusId>>, "moderator_action", NoId, action),
      Emit(<<"admin", campusId>>, "moderator_action", NoId, action)>>

\* POST /moderation/ban-user, behind authenticate and requireRole of the
\* router.  A body without userId has userId "".
banUser(u, userId, reason, auditOk) ==
    IF authenticate(u) # 0 THEN Reject("banUser", u, NoId, authenticate(u))
    ELSE IF requireRole(u, {"moderator", "admin", "super-admin"}) # 0
         THEN Reject("banUser", u, NoId, 403)
    ELSE IF userId = "" THEN Reject("banUser", u, NoId, 400)
    ELSE IF userId \notin DOMAIN users THEN Reject("banUser", u, NoId, 404)
    ELSE IF users[userId].campusId # users[u].campusId /\ users[u].role # "super-admin"
         THEN Reject("banUser", u, NoId, 403)
    ELSE
        /\ users' = [users EXCEPT ![userId].isBanned = TRUE]
        /\ UNCHANGED <<reports, comments, now>>
        /\ IF ~auditOk
           THEN Respond("banUser", u, NoId, 500, TRUE, <<>>, <<>>, <<>>)
           ELSE Respond("banUser", u, NoId, 200, FALSE,
                        <<[logAction(u, "ban_user", userId, [reason |-> reason], <<>>)
                             EXCEPT !.entityType = "user"]>>,
                        <<>>,
                        emitModeratorAction(users[u].campusId,
                            [action |-> "ban_user", userId |-> userId, reason |-> reason]))

BanUser(U, T) ==
    \E u \in U, userId \in T, auditOk \in BOOLEAN : banUser(u, userId, "spam", auditOk)

\* PATCH /admin/users/:id with {isActive: false}
Deactivate(U, T) ==
    \E u \in U, id \in T, auditOk \in BOOLEAN :
        updateUser(u, id, "", <<FALSE>>, <<>>, auditOk)

(***************************************************************************)
(* SpecBan: users work on a report while a moderator bans them and an      *)
(* admin deactivates one; the audit collection is kept.                    *)
(***************************************************************************)
NextBan ==
    \/ Create({"s1"})
    \/ Retract({"s1"})
    \/ Vote({"s2"}, {"confirm"})
    \/ Comment({"s2"})
    \/ FlagSpam({"s2"})
    \/ BanUser({"m1"}, {"s1", "s2", ""})
    \/ Deactivate({"x2"}, {"s2"})

SpecBan == InitAudit /\ [][NextBan]_vars

\* C25: a request of a user who is inactive or banned when it arrives is
\* answered 403 and changes no report, comment, audit entry, notification or
\* user, and publishes nothing.
C25_BannedRejected ==
    [][\A u \in UserIds :
         ((~users[u].isActive \/ users[u].isBanned) /\ last' # last /\ last'.actor = u)
            => /\ last'.code = 403
               /\ UNCHANGED <<users, reports, comments, auditLog>>
               /\ audited' = <<>>
               /\ notified' = <<>>
               /\ emitted' = <<>>]_vars

\* The banned student's vote on an existing report has just been refused.
C25_Witness ==
    /\ users["s2"].isBanned
    /\ "r1" \in DOMAIN reports
    /\ reports["r1"].status = "reported"
    /\ last.actor = "s2"
    /\ last.op = "vote"
    /\ last.code = 403
    /\ Len(auditLog.entries) = 2

\* C26: an Edit or a Retract of a report whose status is invalid leaves the
\* status invalid; the Edit is answered 403 and changes nothing of the report.
C26_InvalidStays ==
    [][\A r \in DOMAIN reports :
         (reports[r].status = "invalid" /\ last' # last /\ last'.report = r
             /\ last'.op \in {"edit", "delete"})
            => /\ r \in DOMAIN reports'
               /\ reports'[r].status = "invalid"
               /\ last'.op = "edit" => (last'.code = 403 /\ reports'[r] = reports[r])]_vars

\* The owner's Edit of their retracted report, inside the edit window, has
\* just been refused.
C26_Witness ==
    /\ "r1" \in DOMAIN reports
    /\ reports["r1"].status = "invalid"
    /\ reports["r1"].reporterId = "s1"
    /\ now - reports["r1"].createdAt < EditTimeLimit
    /\ last.op = "edit"
    /\ last.actor = "s1"
    /\ last.code = 403

C29_OwnCampusChannel ==
    \A i \in 1..Len(emitted) :
        (emitted[i].event \in {"new_report", "report_update"}
            /\ emitted[i].room[1] = "campus"
            /\ emitted[i].reportId \in DOMAIN reports)
            => emitted[i].room[2] = reports[emitted[i].reportId].campusId

(***************************************************************************)
(* SpecFrame: a vote, a comment, a detail fetch and a spam flag of one     *)
(* user in progress while the owner edits and a moderator updates the      *)
(* report between their load and their save.                               *)
(***************************************************************************)
\* reportSpam from the includes test on: the save of the push, the audit
\* write, and the save of isSpam and status when the loaded document, the
\* push included, holds five flags.
reportSpamSave(q, auditOk) ==
    /\ inflight[q].op = "spam"
    /\ UNCHANGED comments
    /\ LET req == inflight[q]
           flagged == addSpamReport(req.doc, req.actor)
           marked == IF thresholdReached(flagged)
                     THEN [flagged EXCEPT !.isSpam = TRUE, !.status = "spam"]
                     ELSE flagged
       IN  IF ~auditOk
           THEN /\ UNCHANGED <<users, now>>
                /\ reports' = [reports EXCEPT ![req.report] = save(@, req.doc, flagged)]
                /\ inflight' = Others(q, WritesArray(req.doc, flagged))
                /\ Written("spam", req.actor, req.report, 500, TRUE, <<>>, <<>>, <<>>)
           ELSE saveAndAnswer(q, marked, 200,
                    <<logAction(req.actor, "report_spam", req.report, <<>>, <<>>)>>,
                    <<>>, <<>>)

\* A request by u that has loaded its report, in progress as q.
Load(q, op, u, arg) == \E r \in ReportIds : findById(q, op, u, r, arg)

FinishSpam == \E q \in DOMAIN inflight, auditOk \in BOOLEAN : reportSpamSave(q, auditOk)

NextFrame ==
    \/ Create({"s1"})
    \/ Load("q1", "vote", "s2", "confirm")
    \/ FinishVote
    \/ Load("q2", "comment", "s2", "c1")
    \/ CreateComment
    \/ FinishComment
    \/ Load("q1", "view", "s2", "")
    \/ FinishFetch
    \/ Load("q1", "spam", "s2", "")
    \/ FinishSpam
    \/ Edit({"s1"}, RaceBodies)
    \/ ModeratorUpdate({"m1"}, {"resolved"}, {"n1"}, {"g1"})

SpecFrame == Init /\ [][NextFrame]_vars

OwnPaths(op) ==
    CASE op = "vote" -> {"confirms", "disputes"}
      [] op = "comment" -> {"commentsCount"}
      [] op = "view" -> {"viewsCount"}
      [] op = "spam" -> {"spamReports"}
      [] OTHER -> {}

\* C30: the step in which a Vote, a Comment, a detail fetch or a FlagSpam
\* that stays below the threshold completes changes, of the stored report,
\* its own field only, whatever an Edit or a ModeratorUpdate has written
\* since the request loaded the report.
C30_FrameEffect ==
    [][\A q \in DOMAIN inflight :
         LET req == inflight[q]
             r == req.report
         IN  (/\ q \notin DOMAIN inflight'
              /\ req.op \in {"vote", "comment", "view", "spam"}
              /\ req.op = "spam" =>
                    ~thresholdReached(addSpamReport(req.doc, req.actor)))
                => \A p \in DOMAIN reports[r] \ OwnPaths(req.op) :
                       reports'[r][p] = reports[r][p]]_vars

\* A vote has completed on a report that a moderator resolved and the owner
\* edited, while a comment that loaded the report before both is still in
\* progress.
C30_Witness ==
    /\ "r1" \in DOMAIN reports
    /\ reports["r1"].status = "resolved"
    /\ reports["r1"].title = "t2"
    /\ BagIn("s2", reports["r1"].confirms)
    /\ last.op = "vote"
    /\ last.code = 200
    /\ \E q \in DOMAIN inflight :
          /\ inflight[q].op = "comment"
          /\ inflight[q].doc.status = "reported"
          /\ inflight[q].doc.title = "t1"
          /\ ~BagIn("s2", inflight[q].doc.confirms)

====
